---- MODULE Spec2Model ----
(***************************************************************************)
(* Model of the directed graph generator (src/src/main.cpp): the Graph     *)
(* class (a dense adjacency matrix with an edge counter) and main(), which *)
(* validates its parameters, seeds the chain 0 -> 1 -> ... , adds random   *)
(* edges by rejection sampling and serialises the graph.                   *)
(*                                                                         *)
(* A cell of the matrix is the set of values a read of it can yield:       *)
(* {FALSE} or {TRUE} once written, BOOLEAN while it is uninitialised (the  *)
(* constructor writes only the first num_vertices cells of the             *)
(* num_vertices * num_vertices it allocates).                              *)
(***************************************************************************)
EXTENDS Integers, Sequences, FiniteSets, TLC

\* ------------------------------------------------------------------ bounds
MaxVertices == 3        \* largest num_vertices given on the command line
MaxEdges == 2           \* largest additional_edges given on the command line
RejCap == 259           \* the history counter of rejections saturates here
MaxGarbage == 1         \* most uninitialised cells the serialisation reads as true

\* --------------------------------------------------------- program constants
MAX_ITERATIONS == 256
UINT8_RANGE == 256

VARIABLES
    pc,                         \* position of main()
    num_vertices,               \* argv[1]
    min_graph_depth,            \* argv[2]
    additional_edges,           \* argv[3]
    has_cicles,                 \* argv[4]
    shuffle,                    \* argv[5]
    matrix,                     \* Graph::matrix, by cell index
    num_edges,                  \* Graph::num_edges
    i,                          \* loop variable of the chain seeding
    current_additional_edges,
    current_iterations,         \* uint8_t
    vertex_numbers,
    out,                        \* lines written to the output file
    exit_code,                  \* -1 while running or after a trap
    rejections                  \* history, kept by CountSpec only: consecutive rejected attempts (saturating)

vars == <<pc, num_vertices, min_graph_depth, additional_edges, has_cicles, shuffle,
          matrix, num_edges, i, current_additional_edges, current_iterations,
          vertex_numbers, out, exit_code, rejections>>

params == <<num_vertices, min_graph_depth, additional_edges, has_cicles, shuffle>>

\* Values a call of rng() can return (the engine's range is far larger; every
\* residue modulo a vertex count, and values beyond it, occur).
RngValues == 0 .. MaxVertices

Min(a, b) == IF a < b THEN a ELSE b

\* ------------------------------------------------------------------ Graph
Cells == 0 .. (num_vertices * num_vertices - 1)

\* The uint32_t arithmetic of the model stays far below 2^32: no wrap is modelled.
Index(from, to) == from + to * num_vertices

InBounds(from, to) == Index(from, to) < num_vertices * num_vertices

\* Graph::Graph: only the cells 0 .. num_vertices-1 are set to false.
NewMatrix(n) == [c \in 0 .. (n * n - 1) |-> IF c < n THEN {FALSE} ELSE BOOLEAN]

\* Graph::has_edge: the values the call can return.
has_edge(from, to) == IF InBounds(from, to) THEN matrix[Index(from, to)] ELSE BOOLEAN

\* SetCell with the roles of from and to exchanged in the cell index.
SetCellTransposed(from, to) ==
    IF to + from * num_vertices < num_vertices * num_vertices
       THEN [matrix EXCEPT ![to + from * num_vertices] = {TRUE}]
       ELSE matrix

\* Graph::add_edge, the matrix after the call (a write past the end leaves the matrix alone).
SetCell(from, to) ==
    IF InBounds(from, to) THEN [matrix EXCEPT ![Index(from, to)] = {TRUE}] ELSE matrix

\* add_edge without the increment of the edge counter.
add_edge_uncounted(from, to) ==
    /\ matrix' = SetCell(from, to)
    /\ num_edges' = num_edges

add_edge(from, to) ==
    /\ matrix' = SetCell(from, to)
    /\ num_edges' = num_edges + 1

\* ------------------------------------------------------------------- main
Init ==
    /\ pc = "start"
    /\ num_vertices \in 0 .. MaxVertices
    /\ min_graph_depth \in 0 .. (MaxVertices + 1)
    /\ additional_edges \in 0 .. MaxEdges
    /\ has_cicles \in BOOLEAN
    /\ shuffle \in BOOLEAN
    /\ matrix = <<>>
    /\ num_edges = 0
    /\ i = 0
    /\ current_additional_edges = 0
    /\ current_iterations = 0
    /\ vertex_numbers = <<>>
    /\ out = <<>>
    /\ exit_code = -1
    /\ rejections = 0

\* DepthInvalid refusing a depth equal to num_vertices as well.
DepthInvalidStrict == min_graph_depth >= num_vertices

DepthInvalid == min_graph_depth > num_vertices

CyclesInvalid == has_cicles /\ additional_edges < 1

\* Lines 73-96: the parameters are read and checked.
Validate ==
    /\ pc = "start"
    /\ IF DepthInvalid \/ CyclesInvalid
          THEN pc' = "invalid" /\ exit_code' = 1
          ELSE pc' = "construct" /\ exit_code' = exit_code
    /\ UNCHANGED <<params, matrix, num_edges, i, current_additional_edges,
                   current_iterations, vertex_numbers, out, rejections>>

\* Line 99: Graph graph = Graph(num_vertices).
Construct ==
    /\ pc = "construct"
    /\ matrix' = NewMatrix(num_vertices)
    /\ num_edges' = 0
    /\ i' = 1
    /\ pc' = "seed"
    /\ UNCHANGED <<params, current_additional_edges, current_iterations,
                   vertex_numbers, out, exit_code, rejections>>

\* Lines 102-103, one iteration.
SeedEdge ==
    /\ pc = "seed"
    /\ i < min_graph_depth
    /\ add_edge(i - 1, i)
    /\ i' = i + 1
    /\ UNCHANGED <<pc, params, current_additional_edges, current_iterations,
                   vertex_numbers, out, exit_code, rejections>>

\* Lines 102, 111-112: the seeding loop ends, the sampling loop's counters are set.
SeedDone ==
    /\ pc = "seed"
    /\ ~(i < min_graph_depth)
    /\ current_additional_edges' = 0
    /\ current_iterations' = 0
    /\ pc' = "loop"
    /\ UNCHANGED <<params, matrix, num_edges, i, vertex_numbers, out, exit_code,
                   rejections>>

\* ------------------------------------------------------- the sampling loop
\* x % m on uint32_t. A remainder by zero is undefined: the machine's divide
\* either traps (DivideByZeroTrap) or, where it does not trap, leaves the dividend.
Rem(x, m) == IF m = 0 THEN x ELSE x % m

\* A division of this iteration has a zero divisor (lines 117, 128, 131, 142).
DivZero ==
    \/ num_vertices = 0
    \/ has_cicles /\ current_additional_edges = 0 /\ min_graph_depth = 0

\* FirstCyclicDraw with the guard asking for rand_from < rand_to.
FirstCyclicDrawAscending(r1, r2) ==
    LET rand_to == Rem(Rem(r1, num_vertices), min_graph_depth)
        rand_from == Rem(r2, min_graph_depth)
    IN  [from |-> rand_from, to |-> rand_to, probe |-> rand_from < rand_to]

\* Lines 117, 124-132: the first additional edge of a graph with cycles.
\* probe: the guard reaches has_edge (rand_from != rand_to).
FirstCyclicDraw(r1, r2) ==
    LET rand_to == Rem(Rem(r1, num_vertices), min_graph_depth)
        rand_from == Rem(r2, min_graph_depth)
    IN  [from |-> rand_from, to |-> rand_to, probe |-> rand_from # rand_to]

\* Lines 117, 139-143: the later edges of a graph with cycles.
LaterCyclicDraw(r1, r2) ==
    LET rand_to == Rem(r1, num_vertices)
        rand_from == Rem(r2, num_vertices)
    IN  [from |-> rand_from, to |-> rand_to, probe |-> rand_from # rand_to]

\* AcyclicDraw with rand_from drawn below num_vertices instead of below rand_to.
AcyclicDrawAnyOrigin(r1, r2) ==
    LET rand_to == Rem(r1, num_vertices)
    IN  IF rand_to > 0
           THEN [from |-> Rem(r2, num_vertices), to |-> rand_to, probe |-> TRUE]
           ELSE [from |-> 0, to |-> rand_to, probe |-> FALSE]

\* Lines 117, 152-158: an edge of a graph without cycles (rand_from is drawn
\* only when rand_to > 0).
AcyclicDraw(r1, r2) ==
    LET rand_to == Rem(r1, num_vertices)
    IN  IF rand_to > 0
           THEN [from |-> r2 % rand_to, to |-> rand_to, probe |-> TRUE]
           ELSE [from |-> 0, to |-> rand_to, probe |-> FALSE]

\* Lines 117, 128, 131, 142: the divisors of the draws of this iteration (the
\* draw modulo rand_to at line 156 is made only when rand_to > 0).
Moduli ==
    {num_vertices} \cup
        (IF has_cicles /\ current_additional_edges = 0 THEN {min_graph_depth} ELSE {})

\* Lines 121-166: the candidate edge of one iteration, from its two draws.
Candidate(r1, r2) ==
    IF has_cicles
       THEN IF current_additional_edges = 0
               THEN FirstCyclicDraw(r1, r2)
               ELSE LaterCyclicDraw(r1, r2)
       ELSE AcyclicDraw(r1, r2)

\* Lines 133-136, 144-147, 159-162: the edge is added, the loop continues.
Accept(from, to) ==
    /\ add_edge(from, to)
    /\ current_additional_edges' = current_additional_edges + 1
    /\ current_iterations' = 0
    /\ rejections' = 0
    /\ UNCHANGED <<pc, exit_code>>

\* Lines 170-174: the retry check and the increment of the uint8_t counter.
\* count: the history counter of rejections is kept.
Reject(count) ==
    /\ IF current_iterations > MAX_ITERATIONS
          THEN /\ pc' = "fatal"
               /\ exit_code' = 1
               /\ UNCHANGED <<current_iterations, rejections>>
          ELSE /\ current_iterations' = (current_iterations + 1) % UINT8_RANGE
               /\ rejections' = IF count THEN Min(rejections + 1, RejCap) ELSE rejections
               /\ UNCHANGED <<pc, exit_code>>
    /\ UNCHANGED <<matrix, num_edges, current_additional_edges>>

Rejected == [accept |-> FALSE, from |-> 0, to |-> 0]

\* Lines 132, 143, 158: what the guard of the candidate can decide (has_edge is
\* called only when the candidate is no self-loop).
Outcomes(c) ==
    IF c.probe
       THEN {IF b THEN Rejected ELSE [accept |-> TRUE, from |-> c.from, to |-> c.to] :
                b \in has_edge(c.from, c.to)}
       ELSE {Rejected}

\* Lines 113-176: one iteration of the while loop.
Iteration(count) ==
    /\ pc = "loop"
    /\ current_additional_edges < additional_edges
    /\ \E o \in UNION {Outcomes(Candidate(r1, r2)) : r1, r2 \in RngValues} :
          IF o.accept THEN Accept(o.from, o.to) ELSE Reject(count)
    /\ UNCHANGED <<params, i, vertex_numbers, out>>

Attempt == Iteration(FALSE)

CountedAttempt == Iteration(TRUE)

Crash ==
    /\ pc' = "crash"
    /\ UNCHANGED <<params, matrix, num_edges, i, current_additional_edges,
                   current_iterations, vertex_numbers, out, exit_code, rejections>>

\* Lines 117, 128, 131, 142: the remainder by zero traps.
DivideByZeroTrap ==
    /\ pc = "loop"
    /\ current_additional_edges < additional_edges
    /\ DivZero
    /\ Crash

\* Lines 132, 143, 158 (42, 48): an access past the end of the matrix faults.
OutOfBoundsTrap ==
    /\ pc = "loop"
    /\ current_additional_edges < additional_edges
    /\ \E r1, r2 \in RngValues :
          LET c == Candidate(r1, r2)
          IN  c.probe /\ ~InBounds(c.from, c.to)
    /\ Crash

\* LoopExit taken whatever the loop condition says.
LoopExitUnchecked ==
    /\ pc = "loop"
    /\ pc' = "output"
    /\ UNCHANGED <<params, matrix, num_edges, i, current_additional_edges,
                   current_iterations, vertex_numbers, out, exit_code, rejections>>

\* LoopExit with the loop condition off by one.
LoopExitEarly ==
    /\ pc = "loop"
    /\ ~(current_additional_edges + 1 < additional_edges)
    /\ pc' = "output"
    /\ UNCHANGED <<params, matrix, num_edges, i, current_additional_edges,
                   current_iterations, vertex_numbers, out, exit_code, rejections>>

\* Line 113: the loop condition fails.
LoopExit ==
    /\ pc = "loop"
    /\ ~(current_additional_edges < additional_edges)
    /\ pc' = "output"
    /\ UNCHANGED <<params, matrix, num_edges, i, current_additional_edges,
                   current_iterations, vertex_numbers, out, exit_code, rejections>>

\* ---------------------------------------------------------- serialisation
\* Lines 180-185: the file is opened, the two header lines are written.
WriteHeader ==
    /\ pc = "output"
    /\ out' = << <<num_vertices>>, <<num_edges>> >>
    /\ pc' = "labels"
    /\ UNCHANGED <<params, matrix, num_edges, i, current_additional_edges,
                   current_iterations, vertex_numbers, exit_code, rejections>>

Identity(n) == [v \in 0 .. (n - 1) |-> v]

\* Shuffles that may also repeat an element.
ShufflesWithRepeats(n) == [0 .. (n - 1) -> 0 .. (n - 1)]

\* What std::random_shuffle can leave in a vector holding 0 .. n-1.
Shuffles(n) ==
    {f \in [0 .. (n - 1) -> 0 .. (n - 1)] :
        \A v, w \in 0 .. (n - 1) : f[v] = f[w] => v = w}

\* Lines 189-195.
MakeLabels ==
    /\ pc = "labels"
    /\ vertex_numbers' \in
          (IF shuffle THEN Shuffles(num_vertices) ELSE {Identity(num_vertices)})
    /\ pc' = "emit"
    /\ UNCHANGED <<params, matrix, num_edges, i, current_additional_edges,
                   current_iterations, out, exit_code, rejections>>

\* The subsets of s with at most k elements.
RECURSIVE SubsetsUpTo(_, _)
SubsetsUpTo(s, k) ==
    IF k = 0
       THEN {{}}
       ELSE LET smaller == SubsetsUpTo(s, k - 1)
            IN  smaller \cup {t \cup {c} : t \in smaller, c \in s}

\* The readings has_edge can give over the whole matrix: a written cell
\* reads as written, an uninitialised one either way.
Readings ==
    LET unknown == {c \in Cells : matrix[c] = BOOLEAN}
    IN  {[c \in Cells |-> IF matrix[c] = BOOLEAN THEN c \in g ELSE TRUE \in matrix[c]] :
            g \in SubsetsUpTo(unknown, MaxGarbage)}

\* Lines 198-205 from the pair number k on (k = i * num_vertices + j).
RECURSIVE EdgeLines(_, _, _)
EdgeLines(k, reading, labels) ==
    IF k >= num_vertices * num_vertices
       THEN <<>>
       ELSE LET from == k \div num_vertices
                to == k % num_vertices
                rest == EdgeLines(k + 1, reading, labels)
            IN  IF reading[Index(from, to)]
                   THEN << <<labels[from], labels[to]>> >> \o rest
                   ELSE rest

\* Lines 198-207.
EmitEdges ==
    /\ pc = "emit"
    /\ \E reading \in Readings :
          out' = out \o EdgeLines(0, reading, vertex_numbers)
    /\ pc' = "done"
    /\ exit_code' = 0
    /\ UNCHANGED <<params, matrix, num_edges, i, current_additional_edges,
                   current_iterations, vertex_numbers, rejections>>

Next ==
    \/ Validate
    \/ Construct
    \/ SeedEdge
    \/ SeedDone
    \/ Attempt
    \/ DivideByZeroTrap
    \/ OutOfBoundsTrap
    \/ LoopExit
    \/ WriteHeader
    \/ MakeLabels
    \/ EmitEdges

Spec == Init /\ [][Next]_vars

\* The same program, with the history counter of consecutive rejections kept.
NextCount ==
    \/ Validate
    \/ Construct
    \/ SeedEdge
    \/ SeedDone
    \/ CountedAttempt
    \/ DivideByZeroTrap
    \/ OutOfBoundsTrap
    \/ LoopExit
    \/ WriteHeader
    \/ MakeLabels
    \/ EmitEdges

CountSpec == Init /\ [][NextCount]_vars

\* main() is the only thread: it runs whenever it can.
FairSpec == Spec /\ WF_vars(Next)

TypeOK ==
    /\ pc \in {"start", "invalid", "construct", "seed", "loop", "output", "labels",
               "emit", "done", "fatal", "crash"}
    /\ current_iterations \in 0 .. (UINT8_RANGE - 1)
    /\ rejections \in 0 .. RejCap

\* ------------------------------------------------------------ properties
\* The graph object exists.
Constructed == pc \notin {"start", "invalid", "construct"}

\* The chain has been seeded.
Seeded == pc \in {"loop", "output", "labels", "emit", "done", "fatal", "crash"}

\* The header lines have been written.
HeaderWritten == pc \in {"labels", "emit", "done"}

\* No operation of the run is undefined by a zero divisor.
NoZeroDivisor == num_vertices > 0 /\ (has_cicles => min_graph_depth > 0)

From(c) == c % num_vertices
To(c) == c \div num_vertices

\* The edges add_edge has stored: the cells every read finds true.
StoredEdges == {<<From(c), To(c)>> : c \in {x \in Cells : matrix[x] = {TRUE}}}

\* The chain edges of the request.
ChainEdges == {<<v - 1, v>> : v \in 1 .. (min_graph_depth - 1)}

\* Pairs joined by a path of at most k edges of r.
RECURSIVE Paths(_, _)
Paths(r, k) ==
    IF k <= 1
       THEN r
       ELSE LET shorter == Paths(r, k - 1)
            IN  shorter \cup
                UNION {{<<e[1], f[2]>> : f \in {g \in r : g[1] = e[2]}} : e \in shorter}

\* r has a directed cycle through vertices below bound only.
HasCycleBelow(r, bound) ==
    LET inside == {e \in r : e[1] < bound /\ e[2] < bound}
    IN  \E e \in Paths(inside, bound) : e[1] = e[2]

\* C1 (as stated): whenever the header has been written (for a positive
\* num_vertices), its first line is num_vertices and its second line is
\* min_graph_depth - 1 + additional_edges.
C1_HeaderCounts_Original ==
    (HeaderWritten /\ num_vertices >= 1) =>
        /\ out[1] = <<num_vertices>>
        /\ out[2] = <<min_graph_depth - 1 + additional_edges>>

\* The chain edges seeded for a depth: depth - 1, and none for a depth of 0.
ChainLength(depth) == IF depth >= 1 THEN depth - 1 ELSE 0

\* C1 (amended): whenever the header has been written, its first line is
\* num_vertices and its second line is the number of chain edges (min_graph_depth - 1,
\* or 0 when min_graph_depth is 0) plus additional_edges.
C1_HeaderCounts ==
    HeaderWritten =>
        /\ out[1] = <<num_vertices>>
        /\ out[2] = <<ChainLength(min_graph_depth) + additional_edges>>

C1_Witness ==
    pc = "done" /\ has_cicles /\ additional_edges = 2 /\ min_graph_depth = 2

\* C2: when has_cicles is set (and no divisor of the run is zero), once the
\* sampling loop has ended the stored edges contain a directed cycle through
\* vertices below min_graph_depth only.
C2_CycleInChain ==
    (/\ has_cicles
     /\ additional_edges >= 1
     /\ NoZeroDivisor
     /\ pc \in {"output", "labels", "emit", "done"})
        => HasCycleBelow(StoredEdges, min_graph_depth)

\* C3: when has_cicles is not set, every edge add_edge has stored goes from a
\* lower to a higher vertex, in every state of the run.
C3_AcyclicEdgesAscend ==
    (Constructed /\ ~has_cicles) => \A e \in StoredEdges : e[1] < e[2]

C3_Witness ==
    /\ pc = "done"
    /\ ~has_cicles
    /\ min_graph_depth = 2
    /\ current_additional_edges = 2
    /\ <<0, 2>> \in StoredEdges

\* C4: no run (whose divisors are all non-zero) has more than MAX_ITERATIONS + 2
\* consecutive rejected attempts.
C4_RetryBounded == NoZeroDivisor => rejections <= MAX_ITERATIONS + 2

\* C5: every run whose divisors are all non-zero ends: with the parameters
\* refused, with the output written or with the exhaustion error.
C5_Terminates == NoZeroDivisor ~> (pc \in {"invalid", "done", "fatal"})

\* C6: once the chain is seeded, has_edge(v-1, v) yields true and only true for
\* every v in 1 .. min_graph_depth-1, in every later state.
C6_ChainPresent ==
    Seeded => \A v \in 1 .. (min_graph_depth - 1) : has_edge(v - 1, v) = {TRUE}

C6_Witness ==
    pc = "done" /\ min_graph_depth = 3 /\ current_additional_edges = 2

\* C7: in every state of the graph, has_edge(v, v) is false for every vertex v.
C7_NoSelfLoop ==
    Constructed => \A v \in 0 .. (num_vertices - 1) : has_edge(v, v) = {FALSE}

\* C8: every call of add_edge sets a cell for which has_edge was false: one
\* initialised to false, or, in the sampling loop, one the guard has just read
\* as false.
C8_NoDuplicateInsert ==
    [][(NoZeroDivisor /\ num_edges' # num_edges) =>
          \E c \in Cells :
             /\ matrix'[c] = {TRUE}
             /\ \/ matrix[c] = {FALSE}
                \/ pc = "loop" /\ matrix[c] = BOOLEAN]_vars

\* C9: in every state of the graph every cell holds a definite value, and
\* num_edges is the number of cells that hold true (none right after construction).
C9_EdgeCountMatches ==
    Constructed =>
        /\ \A c \in Cells : matrix[c] \in {{TRUE}, {FALSE}}
        /\ num_edges = Cardinality(StoredEdges)

\* The lines "v-1 v" of the chain, ascending.
ChainLines == [v \in 1 .. ChainLength(min_graph_depth) |-> <<v - 1, v>>]

\* C10: with no additional edges, no cycles and no shuffle, for num_vertices >= 1
\* and 1 <= min_graph_depth, the output is num_vertices, min_graph_depth - 1 and
\* the chain lines, and nothing else.
C10_ChainOnlyOutput ==
    (/\ pc = "done"
     /\ additional_edges = 0
     /\ ~has_cicles
     /\ ~shuffle
     /\ num_vertices >= 1
     /\ min_graph_depth >= 1)
        => out = << <<num_vertices>>, <<min_graph_depth - 1>> >> \o ChainLines

\* C11: when min_graph_depth > num_vertices, or has_cicles is set with
\* additional_edges < 1, the run never leaves validation: it ends with exit
\* code 1, with no graph constructed, no edge added and nothing written; in
\* every other case the run is never refused and its exit code is never 1
\* on account of validation.
C11_ValidationTerminal ==
    IF min_graph_depth > num_vertices \/ (has_cicles /\ additional_edges < 1)
       THEN /\ pc \in {"start", "invalid"}
            /\ pc = "invalid" => exit_code = 1
            /\ matrix = <<>>
            /\ num_edges = 0
            /\ current_additional_edges = 0
            /\ out = <<>>
       ELSE /\ pc # "invalid"
            /\ pc \in {"start", "construct", "seed"} => exit_code # 1

C11_Witness ==
    /\ pc = "invalid"
    /\ exit_code = 1
    /\ has_cicles
    /\ additional_edges = 0
    /\ min_graph_depth <= num_vertices

\* C12: something is written to the output only once the sampling loop has
\* reached current_additional_edges = additional_edges; a run with exit code 1
\* has written nothing, and a run that has written ends with exit code 0.
C12_NoPartialOutput ==
    /\ out # <<>> =>
          /\ current_additional_edges = additional_edges
          /\ pc \in {"labels", "emit", "done"}
          /\ exit_code \in {-1, 0}
    /\ exit_code = 1 => out = <<>>
    /\ pc = "done" => exit_code = 0
    /\ pc \in {"invalid", "fatal", "crash"} => out = <<>>

C12_Witness ==
    pc = "done" /\ exit_code = 0 /\ Len(out) > 2 /\ additional_edges = 2

\* What has_edge yields where only the cells add_edge has written read true.
StoredReading == [c \in Cells |-> matrix[c] = {TRUE}]

\* C13: in a finished run (no divisor zero) the edge lines are the row-major
\* enumeration of the stored edges under the labels, and there are as many of
\* them as the edge count on line 2.
C13_EdgeLinesMatchCount ==
    (pc = "done" /\ NoZeroDivisor) =>
        /\ SubSeq(out, 3, Len(out)) = EdgeLines(0, StoredReading, vertex_numbers)
        /\ <<Len(out) - 2>> = out[2]

\* The labelling has been computed.
Labelled == pc \in {"emit", "done"}

\* C14: once computed, the labelling maps every vertex to itself when shuffle
\* is not set, and is a one-to-one map of 0 .. num_vertices-1 onto itself when
\* it is set; the step that computes it changes neither the matrix nor num_edges.
C14_Labelling ==
    /\ [](Labelled =>
            /\ DOMAIN vertex_numbers = 0 .. (num_vertices - 1)
            /\ ~shuffle => \A v \in 0 .. (num_vertices - 1) : vertex_numbers[v] = v
            /\ shuffle =>
                  /\ {vertex_numbers[v] : v \in 0 .. (num_vertices - 1)}
                        = 0 .. (num_vertices - 1)
                  /\ \A v, w \in 0 .. (num_vertices - 1) :
                        vertex_numbers[v] = vertex_numbers[w] => v = w)
    /\ [][pc = "labels" => (matrix' = matrix /\ num_edges' = num_edges)]_vars

C14_Witness ==
    /\ pc = "done"
    /\ shuffle
    /\ num_vertices = 3
    /\ vertex_numbers = (0 :> 2 @@ 1 :> 0 @@ 2 :> 1)
    /\ StoredEdges # {}

\* The sampling loop is at the head of an iteration it will run.
Sampling == pc = "loop" /\ current_additional_edges < additional_edges

\* C15: an accepted attempt sets current_iterations to 0, and a rejected
\* attempt that does not abort leaves it exactly one greater than before.
C15_RetryCounterSteps ==
    [][(NoZeroDivisor /\ Sampling /\ pc' = "loop") =>
          IF current_additional_edges' # current_additional_edges
             THEN current_iterations' = 0
             ELSE current_iterations' = current_iterations + 1]_vars

\* The calls has_edge(from, to) the guards of this iteration can make.
GuardCalls ==
    {c \in {Candidate(r1, r2) : r1, r2 \in RngValues} : c.probe}

\* C16: with num_vertices >= 1, every call of add_edge and has_edge has
\* 0 <= from < num_vertices and 0 <= to < num_vertices (its cell lies inside
\* the matrix): the chain edge about to be seeded, and every call
\* the guards of the sampling loop can make (both ends below min_graph_depth
\* for the first edge of a graph with cycles).
C16_IndicesInRange ==
    /\ (pc = "seed" /\ i < min_graph_depth) =>
          (0 <= i - 1 /\ i < num_vertices)
    /\ (Sampling /\ num_vertices >= 1) =>
          \A c \in GuardCalls :
             /\ 0 <= c.from /\ c.from < num_vertices
             /\ 0 <= c.to /\ c.to < num_vertices
             /\ InBounds(c.from, c.to)
             /\ (has_cicles /\ current_additional_edges = 0) =>
                   (c.from < min_graph_depth /\ c.to < min_graph_depth)

\* C18: with num_vertices >= 1, every divisor of a draw of the sampling loop
\* is at least 1.
C18_PositiveModuli ==
    (Sampling /\ num_vertices >= 1) => \A m \in Moduli : m >= 1

\* The cells whose content a step changes.
ChangedCells == {c \in Cells : matrix'[c] # matrix[c]}

\* C17: at the head of every iteration current_additional_edges <=
\* additional_edges and num_edges is the number of chain edges plus
\* current_additional_edges; an accepted attempt increases both by one and
\* writes true to one cell (exactly one when no divisor is zero), and a rejected
\* attempt leaves the matrix, num_edges and current_additional_edges as they were.
C17_LoopInvariant ==
    /\ [](pc = "loop" =>
            /\ current_additional_edges <= additional_edges
            /\ num_edges = ChainLength(min_graph_depth) + current_additional_edges)
    /\ [][(Sampling /\ pc' = "loop") =>
            IF current_iterations' = 0 /\ current_additional_edges' # current_additional_edges
               THEN /\ current_additional_edges' = current_additional_edges + 1
                    /\ num_edges' = num_edges + 1
                    /\ Cardinality(ChangedCells) <= 1
                    /\ \A c \in ChangedCells : matrix'[c] = {TRUE}
                    /\ NoZeroDivisor => Cardinality(ChangedCells) = 1
               ELSE /\ matrix' = matrix
                    /\ num_edges' = num_edges
                    /\ current_additional_edges' = current_additional_edges]_vars

C17_Witness ==
    /\ pc = "loop"
    /\ additional_edges = 2
    /\ current_additional_edges = 1
    /\ min_graph_depth = 3
    /\ num_edges = 3

\* Some pair of draws makes this iteration accept an edge.
CanAccept ==
    \E r1, r2 \in RngValues : \E o \in Outcomes(Candidate(r1, r2)) : o.accept

\* C19 (as stated): with has_cicles set, additional_edges >= 1 and
\* min_graph_depth >= 1, some pair of draws is accepted as the first
\* additional edge.
C19_FirstEdgePossible_Original ==
    (/\ pc = "loop"
     /\ has_cicles
     /\ additional_edges >= 1
     /\ current_additional_edges = 0
     /\ min_graph_depth >= 1) => CanAccept

\* C19 (amended): the same for min_graph_depth >= 2.
C19_FirstEdgePossible ==
    (/\ pc = "loop"
     /\ has_cicles
     /\ additional_edges >= 1
     /\ current_additional_edges = 0
     /\ min_graph_depth >= 2) => CanAccept

C19_Witness ==
    /\ pc = "loop"
    /\ has_cicles
    /\ min_graph_depth = 2
    /\ current_additional_edges = 1
    /\ <<1, 0>> \in StoredEdges

====
